---- MODULE Spec2Model ----
(***************************************************************************)
(* A model of ScilabKernel (src/scilab_kernel.py): the protocol adapter    *)
(* that owns one Scilab session and answers execute / history / shutdown   *)
(* requests.                                                               *)
(*                                                                         *)
(* Text is modelled as a sequence of one-character strings, so that        *)
(* strip, startswith, join, readlines and re.sub are computed character    *)
(* by character as the Python code computes them.  File writes follow the  *)
(* str-is-bytes semantics the code is written for (a str written to a      *)
(* file opened 'wb').                                                      *)
(*                                                                         *)
(* The engine binding (scilab2py) is outside the repository.  It is        *)
(* modelled by what the adapter can observe of it: the outcome of _eval    *)
(* is an input of the execute step (a value, a KeyboardInterrupt, a        *)
(* Scilab2PyError or any other exception); restart() starts a fresh        *)
(* process, whose workspace holds no user variable; close() ends the       *)
(* process.  Calls other than _eval are taken not to raise.                *)
(***************************************************************************)
EXTENDS Integers, Sequences, FiniteSets, TLC

\* ------------------------------------------------------------------ bounds

\* The cap of the history cache.  The program sets 1000
\* (src/scilab_kernel.py:69); the model scales it down so that the
\* (cap+1)-th entry is reached.
max_hist_cache == 2


\* ------------------------------------------------------------ text helpers

\* Python's str.strip() whitespace, as far as the inputs use it.
Whitespace == {" ", "\n", "\t"}

\* \w of the re module: letters, digits and the underscore.
WordChars ==
    {"a", "b", "c", "d", "e", "f", "g", "h", "i", "j", "k", "l", "m",
     "n", "o", "p", "q", "r", "s", "t", "u", "v", "w", "x", "y", "z",
     "A", "B", "C", "D", "E", "F", "G", "H", "I", "J", "K", "L", "M",
     "N", "O", "P", "Q", "R", "S", "T", "U", "V", "W", "X", "Y", "Z",
     "0", "1", "2", "3", "4", "5", "6", "7", "8", "9", "_"}

RECURSIVE lstrip(_)
lstrip(s) ==
    IF s # <<>> /\ Head(s) \in Whitespace THEN lstrip(Tail(s)) ELSE s

RECURSIVE rstrip(_)
rstrip(s) ==
    IF s # <<>> /\ s[Len(s)] \in Whitespace
    THEN rstrip(SubSeq(s, 1, Len(s) - 1))
    ELSE s

strip(s) == rstrip(lstrip(s))

startswith(s, p) == Len(p) <= Len(s) /\ SubSeq(s, 1, Len(p)) = p

endswith(s, p) ==
    Len(p) <= Len(s) /\ SubSeq(s, Len(s) - Len(p) + 1, Len(s)) = p

\* The positions at which sub occurs in s.
Occurrences(s, sub) ==
    {i \in 1..(Len(s) - Len(sub) + 1) : SubSeq(s, i, i + Len(sub) - 1) = sub}

\* Python's `sub in s`.
Contains(s, sub) == Occurrences(s, sub) # {}

\* A slip in _handle_error: rindex for index, the last occurrence.
IndexOfLast(s, sub) ==
    CHOOSE i \in Occurrences(s, sub) : \A j \in Occurrences(s, sub) : i >= j

\* Python's s.index(sub), one-based; used only where sub occurs.
Index(s, sub) ==
    CHOOSE i \in Occurrences(s, sub) : \A j \in Occurrences(s, sub) : i <= j

\* Python's s[i:] with a zero-based i, 0 <= i.
From(s, i) == SubSeq(s, i + 1, Len(s))

\* Python's s.replace(c, ' ') for a one-character c.
RECURSIVE replaceChar(_, _, _)
replaceChar(s, c, by) ==
    IF s = <<>> THEN <<>>
    ELSE (IF Head(s) = c THEN by ELSE <<Head(s)>>)
             \o replaceChar(Tail(s), c, by)

\* Python's s.split(): the maximal runs of non-whitespace characters.
RECURSIVE splitWords(_, _)
splitWords(s, cur) ==
    IF s = <<>> THEN (IF cur = <<>> THEN <<>> ELSE <<cur>>)
    ELSE IF Head(s) \in Whitespace
         THEN (IF cur = <<>> THEN <<>> ELSE <<cur>>) \o splitWords(Tail(s), <<>>)
         ELSE splitWords(Tail(s), Append(cur, Head(s)))

split(s) == splitWords(s, <<>>)

\* Python's sep.join(parts).
RECURSIVE join(_, _)
join(sep, parts) ==
    IF parts = <<>> THEN <<>>
    ELSE IF Len(parts) = 1 THEN parts[1]
    ELSE parts[1] \o sep \o join(sep, Tail(parts))

\* Python's fid.readlines(): the lines of the content, each keeping the
\* "\n" that ends it; a last line without "\n" is a line too.
RECURSIVE readlinesFrom(_, _)
readlinesFrom(content, cur) ==
    IF content = <<>> THEN (IF cur = <<>> THEN <<>> ELSE <<cur>>)
    ELSE IF Head(content) = "\n"
         THEN <<Append(cur, "\n")>> \o readlinesFrom(Tail(content), <<>>)
         ELSE readlinesFrom(Tail(content), Append(cur, Head(content)))

readlines(content) == readlinesFrom(content, <<>>)

\* A slip in the slice of do_history: the cap is not applied.
WholeList(lst, n) == lst

\* Python's lst[:n], n >= 0.
HeadSlice(lst, n) == SubSeq(lst, 1, IF Len(lst) < n THEN Len(lst) ELSE n)

\* A slip in the slice of do_shutdown: lst[:n], the oldest entries, where
\* lst[-n:] is meant.
TailSliceFromHead(lst, n) ==
    SubSeq(lst, 1, IF Len(lst) < n THEN Len(lst) ELSE n)

\* Python's lst[-n:], n > 0: the last n elements, the whole list when it
\* is shorter.
TailSlice(lst, n) ==
    SubSeq(lst, (IF Len(lst) < n THEN 0 ELSE Len(lst) - n) + 1, Len(lst))

\* ------------------------------------------------------- literals of the code

\* 'keyboard' (line 82)
kw_keyboard ==
    <<"k", "e", "y", "b", "o", "a", "r", "d">>

\* 'exit' (line 86)
kw_exit ==
    <<"e", "x", "i", "t">>

\* 'quit' (line 87)
kw_quit ==
    <<"q", "u", "i", "t">>

\* 'restart' (line 92)
kw_restart ==
    <<"r", "e", "s", "t", "a", "r", "t">>

\* 'last_kernel_value' (lines 58, 104, 241)
last_kernel_value_name ==
    <<"l", "a", "s", "t", "_", "k", "e", "r", "n", "e", "l", "_", "v",
    "a", "l", "u", "e">>

\* 'Scilab Session Interrupted' (lines 115, 126)
SessionInterrupted ==
    <<"S", "c", "i", "l", "a", "b", " ", "S", "e", "s", "s", "i", "o",
    "n", " ", "I", "n", "t", "e", "r", "r", "u", "p", "t", "e", "d">>

\* 'Uncaught Exception, Restarting Scilab' (line 122)
UncaughtException ==
    <<"U", "n", "c", "a", "u", "g", "h", "t", " ", "E", "x", "c", "e",
    "p", "t", "i", "o", "n", ",", " ", "R", "e", "s", "t", "a", "r",
    "t", "i", "n", "g", " ", "S", "c", "i", "l", "a", "b">>

\* The backquote character, which a TLA+ string cannot hold.
Backquote == "backquote"

\* 'Calling Help Browser for ' and the opening backquote (line 233)
CallingHelpBrowser ==
    <<"C", "a", "l", "l", "i", "n", "g", " ", "H", "e", "l", "p", " ",
    "B", "r", "o", "w", "s", "e", "r", " ", "f", "o", "r", " ", Backquote>>

\* 'parse error:' (line 251)
parse_error_marker ==
    <<"p", "a", "r", "s", "e", " ", "e", "r", "r", "o", "r", ":">>

\* 'Parse Error' (line 252)
ParseError ==
    <<"P", "a", "r", "s", "e", " ", "E", "r", "r", "o", "r">>

\* 'Scilab returned:' (lines 254-256)
scilab_returned_marker ==
    <<"S", "c", "i", "l", "a", "b", " ", "r", "e", "t", "u", "r", "n",
    "e", "d", ":">>

\* 'Syntax Error' (lines 258-259)
syntax_error_marker ==
    <<"S", "y", "n", "t", "a", "x", " ", "E", "r", "r", "o", "r">>

\* ------------------------------------------------------------------ values

\* What _eval returns: None, a number or a string.  One record shape for
\* all three, so that any two values can be compared.
NoneValue == [t |-> "None", n |-> 0, s |-> <<>>]
NumValue(n) == [t |-> "num", n |-> n, s |-> <<>>]
StrValue(s) == [t |-> "str", n |-> 0, s |-> s]

Digits == <<"0", "1", "2", "3", "4", "5", "6", "7", "8", "9">>

RECURSIVE digitsOf(_)
digitsOf(n) ==
    IF n < 10 THEN <<Digits[n + 1]>>
    ELSE Append(digitsOf(n \div 10), Digits[(n % 10) + 1])

\* Python's str(output) of a value that is not None.
str(v) == IF v.t = "num" THEN digitsOf(v.n) ELSE v.s

\* ------------------------------------------------------- the engine session

\* The variable last_kernel_value of the engine's workspace: not defined,
\* or defined with a value.
Undefined == [defined |-> FALSE, value |-> NoneValue]
Defined(v) == [defined |-> TRUE, value |-> v]

\* scilab.restart(): a fresh process; its workspace holds no user variable.
restart(w) == [session |-> "Running", last_kernel_value |-> Undefined]

\* scilab.close(): the process ends, and its workspace with it.
close(w) == [session |-> "Closed", last_kernel_value |-> Undefined]

\* scilab.put('last_kernel_value', v)
put(w, v) == [w EXCEPT !.last_kernel_value = Defined(v)]

\* The outcomes of scilab._eval([code]) that do_execute tells apart:
\* a returned value, KeyboardInterrupt, Scilab2PyError(msg), another
\* exception.
Returned(v) == [kind |-> "value", value |-> v, msg |-> <<>>]
KeyboardInterrupt == [kind |-> "KeyboardInterrupt", value |-> NoneValue, msg |-> <<>>]
Scilab2PyError(msg) == [kind |-> "Scilab2PyError", value |-> NoneValue, msg |-> msg]
OtherException == [kind |-> "Exception", value |-> NoneValue, msg |-> <<>>]

\* ------------------------------------------------------------------- state

VARIABLES
    hist_file,        \* self.hist_file: the path, or "None"
    disk,             \* the history file: whether it exists, and its content
    hist_cache,       \* self.hist_cache
    scilab_wrapper,   \* the engine session and its workspace
    execution_count,  \* self.execution_count (owned by Kernel)
    sigint,           \* the handler of SIGINT in force in the kernel process
    restart_sigint,   \* the handler of SIGINT in force at each
                      \* scilab.restart() of the handler call that ran last
    last              \* the handler call that ran last: its inputs, the
                      \* engine and file calls it made, what it sent on
                      \* the stdout stream, and its reply

vars ==
    <<hist_file, disk, hist_cache, scilab_wrapper, execution_count, sigint,
      restart_sigint, last>>

\* signal.SIG_DFL, and the handler signal.signal finds installed when
\* __init__ runs (line 52).
SIG_DFL == "SIG_DFL"
PreviousHandler == "the handler installed before __init__"

HistPath == "scilab_kernel.hist"

\* What a handler call leaves behind; the action assigns it to the state.
Effect(cache, wrapper, dsk, calls, evald, stream, reply) ==
    [hist_cache |-> cache, scilab_wrapper |-> wrapper, disk |-> dsk,
     calls |-> calls, evald |-> evald, stream |-> stream, reply |-> reply]

\* The stdout stream message send_response sends.
stream_content(data) == [name |-> "stdout", data |-> data]

\* --------------------------------------------------------------- do_shutdown

\* A slip in do_shutdown: the flag is ignored and the session closed.
ShutdownCallAlwaysClose(restart_flag) == "close"

\* The engine call of do_shutdown: restart() or close().
ShutdownCall(restart_flag) == IF restart_flag THEN "restart" ELSE "close"

\* What do_shutdown writes: '\n'.join(self.hist_cache[-self.max_hist_cache:])
HistoryToWrite(cache) == join(<<"\n">>, TailSlice(cache, max_hist_cache))

\* do_shutdown(restart), run on the cache and the session it finds.
shutdown(restart_flag, cache, wrapper, dsk) ==
    LET call == ShutdownCall(restart_flag)
        w2 == IF call = "restart" THEN restart(wrapper) ELSE close(wrapper)
        written == hist_file # "None"
        d2 == IF written
              THEN [exists |-> TRUE, data |-> HistoryToWrite(cache)]
              ELSE dsk
    IN Effect(cache, w2, d2,
              <<call>> \o (IF written THEN <<"write">> ELSE <<>>),
              <<>>, <<>>,
              [status |-> "ok", restart |-> restart_flag])

\* ---------------------------------------------------------------- do_history

\* The lines do_history reads: readlines() of the file, cut to the cap.
HistoryRead(data) == HeadSlice(readlines(data), max_hist_cache)

\* [(None, None, h) for h in history]
HistoryTriples(history) ==
    [i \in 1..Len(history) |-> <<"None", "None", history[i]>>]

history(cache, wrapper, dsk) ==
    IF hist_file = "None"
    THEN Effect(cache, wrapper, dsk, <<>>, <<>>, <<>>, [history |-> <<>>])
    ELSE LET d2 == IF dsk.exists THEN dsk ELSE [exists |-> TRUE, data |-> <<>>]
             lines == HistoryRead(d2.data)
         IN Effect(lines, wrapper, d2,
                   (IF dsk.exists THEN <<>> ELSE <<"create">>) \o <<"read">>,
                   <<>>, <<>>,
                   [history |-> HistoryTriples(lines)])

\* ---------------------------------------------------------------- do_execute

\* A slip in the test of line 82: the empty code is not short-circuited.
KeyboardOnly(code) == code = kw_keyboard

\* not code or code == 'keyboard' or code.startswith('keyboard(')
IsKeyboardCommand(code) ==
    \/ code = <<>>
    \/ code = kw_keyboard
    \/ startswith(code, kw_keyboard \o <<"(">>)

\* A slip in the exit test: the quit( form is forgotten.
IsExitCommandNoQuitCall(code) ==
    \/ code = kw_exit
    \/ startswith(code, kw_exit \o <<"(">>)
    \/ code = kw_quit

\* code == 'exit' or code.startswith('exit(')
\*     or code == 'quit' or code.startswith('quit(')
IsExitCommand(code) ==
    \/ code = kw_exit
    \/ startswith(code, kw_exit \o <<"(">>)
    \/ code = kw_quit
    \/ startswith(code, kw_quit \o <<"(">>)

\* code == 'restart' or code.startswith('restart(')
IsRestartCommand(code) ==
    \/ code = kw_restart
    \/ startswith(code, kw_restart \o <<"(">>)

\* code.endswith('?') or code.startswith('?')
IsHelpQuery(code) == endswith(code, <<"?">>) \/ startswith(code, <<"?">>)

\* A slip in the pattern: any character passes for \W.
AnyCharacter(s, i) == TRUE

\* \W of the re module at position i of s.
NonWord(s, i) == s[i] \notin WordChars

\* fill_value: the matched text with its '_' replaced.
fill_value(matched) == replaceChar(matched, "_", last_kernel_value_name)

\* re.sub('\W_\W|\W_\Z|\A_\W|\A_\Z', fill_value, code): the matches are
\* found from left to right and do not overlap; i is the position the
\* search has reached.
RECURSIVE re_sub(_, _)
re_sub(s, i) ==
    IF i > Len(s) THEN <<>>
    ELSE IF /\ i + 2 <= Len(s)
            /\ NonWord(s, i) /\ s[i + 1] = "_" /\ NonWord(s, i + 2)
         THEN fill_value(SubSeq(s, i, i + 2)) \o re_sub(s, i + 3)
    ELSE IF i + 1 = Len(s) /\ NonWord(s, i) /\ s[i + 1] = "_"
         THEN fill_value(SubSeq(s, i, i + 1))
    ELSE IF i = 1 /\ Len(s) >= 2 /\ s[1] = "_" /\ NonWord(s, 2)
         THEN fill_value(SubSeq(s, 1, 2)) \o re_sub(s, 3)
    ELSE IF i = 1 /\ Len(s) = 1 /\ s[1] = "_"
         THEN fill_value(s)
    ELSE <<s[i]>> \o re_sub(s, i + 1)

\* The text do_execute hands to _eval (lines 100-106).
Submitted(code) == IF Contains(code, <<"_">>) THEN re_sub(code, 1) ELSE code

\* _get_help(code); exists_result is what scilab.exists(token) answers.
get_help(code, exists_result) ==
    LET tokens == split(replaceChar(replaceChar(code, "?", <<>>), ";", <<" ">>))
        token == tokens[Len(tokens)]
    IN IF tokens = <<>> THEN [calls |-> <<>>, stream |-> <<>>]
       ELSE IF exists_result
            THEN [calls |-> <<"exists", "help">>,
                  stream |-> <<stream_content(
                      CallingHelpBrowser \o token \o <<Backquote>>)>>]
            ELSE [calls |-> <<"exists">>, stream |-> <<>>]

\* _handle_output(output, silent): the text it returns, the put it makes
\* and what it streams.
handle_output(output, silent, wrapper) ==
    LET text == IF output = NoneValue THEN <<>> ELSE str(output)
    IN [output |-> text,
        scilab_wrapper |-> IF output = NoneValue THEN wrapper
                           ELSE put(wrapper, output),
        calls |-> IF output = NoneValue THEN <<>> ELSE <<"put">>,
        stream |-> IF silent THEN <<>> ELSE <<stream_content(text)>>]

\* A slip in _handle_error: the text after 'Scilab returned:' keeps its
\* leading whitespace.
ErrorMessageNoStrip(err) ==
    IF Contains(err, parse_error_marker) THEN ParseError
    ELSE IF Contains(err, scilab_returned_marker)
         THEN From(From(err, Index(err, scilab_returned_marker) - 1),
                   Len(scilab_returned_marker))
    ELSE IF Contains(err, syntax_error_marker) THEN syntax_error_marker
    ELSE err

\* The message _handle_error settles on (lines 251-259).
ErrorMessage(err) ==
    IF Contains(err, parse_error_marker) THEN ParseError
    ELSE IF Contains(err, scilab_returned_marker)
         THEN lstrip(From(From(err, Index(err, scilab_returned_marker) - 1),
                          Len(scilab_returned_marker)))
    ELSE IF Contains(err, syntax_error_marker) THEN syntax_error_marker
    ELSE err

\* _handle_error(err): what it streams and the reply it returns.
handle_error(err) ==
    [stream |-> <<stream_content(strip(ErrorMessage(err)))>>,
     reply |-> [status |-> "error", execution_count |-> execution_count,
                ename |-> <<>>, evalue |-> ErrorMessage(err),
                traceback |-> <<>>]]

\* A slip in the KeyboardInterrupt branch: interrupted is not set, so
\* only the marker text of a returned value counts.
InterruptedByMarkerOnly(outcome, output) ==
    outcome.kind = "value" /\ output = SessionInterrupted

\* Whether the operation counts as interrupted (lines 108-130), from the
\* outcome of _eval and the text _handle_output returned.
Interrupted(outcome, output) ==
    \/ outcome.kind = "KeyboardInterrupt"
    \/ outcome.kind = "value" /\ output = SessionInterrupted

\* What the except Exception branch does to the session (line 121).
RecoverFromFault(wrapper) == restart(wrapper)

\* A slip in do_execute: the command is recorded after the dispatch, so
\* only what reaches _eval is recorded.
RecordAfterDispatch(cache, code, store_history) ==
    IF /\ code # <<>> /\ store_history
       /\ ~ (\/ IsKeyboardCommand(code) \/ IsExitCommand(code)
             \/ IsRestartCommand(code) \/ IsHelpQuery(code))
    THEN Append(cache, code)
    ELSE cache

\* if code and store_history: self.hist_cache.append(code) (lines 79-80)
Record(cache, code, store_history) ==
    IF code # <<>> /\ store_history THEN Append(cache, code) ELSE cache

\* do_execute(code, silent, store_history) when _eval ends with outcome
\* and scilab.exists answers exists_result.
execute(raw, silent, store_history, outcome, exists_result) ==
    LET code == strip(raw)
        abort_msg == [status |-> "abort", execution_count |-> execution_count]
        ok_msg == [status |-> "ok", execution_count |-> execution_count,
                   payload |-> <<>>, user_expressions |-> <<>>]
        cache == Record(hist_cache, code, store_history)
    IN IF IsKeyboardCommand(code)
       THEN Effect(cache, scilab_wrapper, disk, <<>>, <<>>, <<>>, ok_msg)
       ELSE IF IsExitCommand(code)
       THEN LET e == shutdown(FALSE, cache, scilab_wrapper, disk)
            IN Effect(cache, e.scilab_wrapper, e.disk,
                      <<"do_shutdown(False)">> \o e.calls, <<>>, <<>>, abort_msg)
       ELSE IF IsRestartCommand(code)
       THEN Effect(cache, restart(scilab_wrapper), disk,
                   <<"restart">>, <<>>, <<>>, abort_msg)
       ELSE IF IsHelpQuery(code)
       THEN LET h == get_help(code, exists_result)
            IN Effect(cache, scilab_wrapper, disk,
                      h.calls, <<>>, h.stream, abort_msg)
       ELSE LET submitted == Submitted(code)
            IN CASE outcome.kind = "KeyboardInterrupt" ->
                   Effect(cache, scilab_wrapper, disk,
                          <<"_eval", "send_signal(SIGINT)">>, submitted, <<>>,
                          IF Interrupted(outcome, SessionInterrupted)
                          THEN abort_msg ELSE ok_msg)
                 [] outcome.kind = "Scilab2PyError" ->
                   LET h == handle_error(outcome.msg)
                   IN Effect(cache, scilab_wrapper, disk,
                             <<"_eval">>, submitted, h.stream, h.reply)
                 [] outcome.kind = "Exception" ->
                   Effect(cache, RecoverFromFault(scilab_wrapper), disk,
                          <<"_eval", "restart">>, submitted, <<>>,
                          IF Interrupted(outcome, UncaughtException)
                          THEN abort_msg ELSE ok_msg)
                 [] outcome.kind = "value" ->
                   LET h == handle_output(outcome.value, silent, scilab_wrapper)
                   IN Effect(cache, h.scilab_wrapper, disk,
                             <<"_eval">> \o h.calls, submitted, h.stream,
                             IF Interrupted(outcome, h.output)
                             THEN abort_msg ELSE ok_msg)

\* Whether do_execute reaches the _eval call with this input (line 110).
ReachesEval(raw) ==
    LET code == strip(raw)
    IN ~ (\/ IsKeyboardCommand(code) \/ IsExitCommand(code)
          \/ IsRestartCommand(code) \/ IsHelpQuery(code))

\* --------------------------------------------------------------- do_complete

\* os.sep of the platforms Scilab runs the kernel on.
os_sep == "/"

\* os.path.basename(p): what follows the last separator.
RECURSIVE basename(_)
basename(p) ==
    IF p = <<>> \/ p[Len(p)] = os_sep THEN <<>>
    ELSE Append(basename(SubSeq(p, 1, Len(p) - 1)), p[Len(p)])

\* p with the separators at its end taken off.
RECURSIVE rstripSep(_)
rstripSep(p) ==
    IF p # <<>> /\ p[Len(p)] = os_sep
    THEN rstripSep(SubSeq(p, 1, Len(p) - 1))
    ELSE p

\* os.path.dirname(p): what comes before the last separator, without the
\* separators at its end unless it is made of separators only.
dirname(p) ==
    LET head == SubSeq(p, 1, Len(p) - Len(basename(p)))
    IN IF \A k \in 1..Len(head) : head[k] = os_sep
       THEN head ELSE rstripSep(head)

\* 'completion("%s")' % token (line 164)
completion_cmd(token) ==
    <<"c", "o", "m", "p", "l", "e", "t", "i", "o", "n", "(", "\"">>
        \o token \o <<"\"", ")">>

\* dir(self.scilab_wrapper): the names of the binding object, sorted; the
\* methods the kernel itself calls stand for them.
dir_scilab_wrapper ==
    << <<"_", "e", "v", "a", "l">>, <<"c", "l", "o", "s", "e">>,
       <<"e", "x", "i", "s", "t", "s">>, <<"h", "e", "l", "p">>,
       <<"p", "u", "t">>, <<"r", "e", "s", "t", "a", "r", "t">> >>

\* The loop of lines 170-172: the names of the binding object that start
\* with token and are not among the matches yet, appended in order.
RECURSIVE AppendDirMatches(_, _, _)
AppendDirMatches(matches, items, token) ==
    IF items = <<>> THEN matches
    ELSE AppendDirMatches(
             IF /\ startswith(Head(items), token)
                /\ \A k \in DOMAIN matches : matches[k] # Head(items)
             THEN Append(matches, Head(items)) ELSE matches,
             Tail(items), token)

\* The reply called default (lines 138-140).
complete_default(cursor_pos) ==
    [matches |-> <<>>, cursor_start |-> 0, cursor_end |-> cursor_pos,
     metadata |-> <<>>, status |-> "ok"]

\* The reply of lines 174-176.
complete_reply(matches, start, cursor_pos) ==
    [matches |-> matches, cursor_start |-> start, cursor_end |-> cursor_pos,
     metadata |-> <<>>, status |-> "ok"]

\* An exception leaves do_complete, which catches none: no reply is
\* returned.
Raised(exception) == [status |-> "raised", exception |-> exception]

\* do_complete(code, cursor_pos) when os.path.exists answers dir_exists,
\* os.listdir answers files and _eval ends with outcome.
complete(raw, cursor_pos, dir_exists, files, outcome) ==
    LET code == HeadSlice(raw, cursor_pos)
        default == complete_default(cursor_pos)
        Leave(calls, evald, reply) ==
            Effect(hist_cache, scilab_wrapper, disk, calls, evald, <<>>, reply)
    IN IF code = <<>>
       THEN Leave(<<>>, <<>>, Raised("IndexError"))
       ELSE IF code[Len(code)] = " "
       THEN Leave(<<>>, <<>>, default)
       ELSE LET tokens == split(replaceChar(code, ";", <<" ">>))
            IN IF tokens = <<>>
               THEN Leave(<<>>, <<>>, default)
               ELSE LET token == tokens[Len(tokens)]
                    IN IF Contains(token, <<os_sep>>)
                       THEN LET rest == basename(token)
                                matches == SelectSeq(files,
                                               LAMBDA f : startswith(f, rest))
                            IN IF dir_exists
                               THEN Leave(<<"os.path.exists", "os.listdir">>,
                                          <<>>,
                                          complete_reply(matches,
                                              cursor_pos - Len(rest),
                                              cursor_pos))
                               ELSE Leave(<<"os.path.exists">>, <<>>, default)
                       ELSE LET cmd == completion_cmd(token)
                                output == outcome.value
                            IN IF outcome.kind # "value"
                               THEN Leave(<<"_eval">>, cmd,
                                          Raised(outcome.kind))
                               ELSE IF output = NoneValue \/ output.s = <<>>
                               THEN Leave(<<"_eval">>, cmd, default)
                               ELSE Leave(<<"_eval">>, cmd,
                                        complete_reply(
                                          AppendDirMatches(
                                            split(replaceChar(output.s, "!",
                                                              <<" ">>)),
                                            dir_scilab_wrapper, token),
                                          cursor_pos - Len(token),
                                          cursor_pos))

\* Whether do_complete reaches the _eval call with this input (line 165).
CompleteReachesEval(raw, cursor_pos) ==
    LET code == HeadSlice(raw, cursor_pos)
        tokens == split(replaceChar(code, ";", <<" ">>))
    IN /\ code # <<>> /\ code[Len(code)] # " "
       /\ tokens # <<>>
       /\ ~ Contains(tokens[Len(tokens)], <<os_sep>>)

\* ------------------------------------------------------------------ inputs

c_empty == <<>>
c_blank == <<" ", "\n", "\t">>
c_a == <<"a">>
c_two_lines == <<"b", "\n", "c">>
c_exit == <<" ", "e", "x", "i", "t", "\n">>
c_quit == kw_quit
c_exit_call == <<"e", "x", "i", "t", "(", "0", ")">>
c_quit_call == <<"q", "u", "i", "t", "(", "1", ")">>
c_restart == kw_restart
c_keyboard == kw_keyboard
c_help == <<"a", "?">>

\* The code cells of the session runs.
Codes ==
    {c_empty, c_blank, c_a, c_exit, c_quit, c_exit_call, c_quit_call, c_restart,
     c_keyboard, c_help}

\* The code cells of the history runs: two commands, one of them of two
\* lines, and an exit.
HistCodes == {c_a, c_two_lines, c_exit}

\* Error texts of Scilab2PyError, one for each branch of _handle_error.
e_parse == <<"S", "c", "i", "l", "a", "b", " ", "r", "e", "t", "u", "r", "n",
             "e", "d", ":", " ">> \o parse_error_marker \o <<"\n">>
e_returned == <<"e", "r", "r", ":", "\n">> \o scilab_returned_marker
                  \o <<" ", "F", "o", "o", " ", "b", "a", "r">>
e_syntax == <<"a", " ">> \o syntax_error_marker \o <<" ", "b">>
e_other == <<" ", "N", "o", " ", "S", "e", "s", "s", "i", "o", "n", "\n">>

ErrorTexts == {e_parse, e_returned, e_syntax, e_other}

\* Values _eval returns.
Values == {NoneValue, NumValue(2), StrValue(SessionInterrupted)}

\* No _eval call, so no outcome.
NoOutcome == [kind |-> "none", value |-> NoneValue, msg |-> <<>>]

\* The outcomes _eval can have: a session that is closed has no process
\* to evaluate the code or to be interrupted, so the call can only raise.
EvalOutcomes(wrapper, values, errors) ==
    {Scilab2PyError(m) : m \in errors} \cup {OtherException}
        \cup (IF wrapper.session = "Running"
              THEN {Returned(v) : v \in values} \cup {KeyboardInterrupt}
              ELSE {})

\* execution_count is owned by the Kernel base class, which counts the
\* requests; the handlers only read it.  The values it has in the runs.
ExecutionCounts == {0, 1}

\* The history files an earlier session can have left behind.
EarlierFiles == {join(<<"\n">>, <<c_a, strip(c_exit)>>)}

\* ----------------------------------------------------------------- actions

\* __init__ has run: the session is started and last_kernel_value is put
\* (lines 52-60); hist_file is the profile's path, or None when no profile
\* is found (lines 62-67); the cache is empty (line 70).  SIGINT is
\* at SIG_DFL while restart() runs and back at the handler found before
\* once the finally clause has run (lines 52, 60).
Init ==
    /\ hist_file \in {HistPath, "None"}
    /\ disk \in {[exists |-> FALSE, data |-> <<>>]}
           \cup (IF hist_file = "None" THEN {}
                 ELSE {[exists |-> TRUE, data |-> d] : d \in EarlierFiles})
    /\ hist_cache = <<>>
    /\ scilab_wrapper = put(restart([session |-> "Closed",
                                     last_kernel_value |-> Undefined]),
                            StrValue(<<>>))
    /\ execution_count \in ExecutionCounts
    /\ sigint = PreviousHandler
    /\ restart_sigint = <<SIG_DFL>>
    /\ last = [op |-> "__init__", code |-> <<>>, silent |-> FALSE,
               store_history |-> FALSE, restart |-> FALSE,
               outcome |-> NoOutcome, calls |-> <<"restart", "put">>,
               evald |-> <<>>, stream |-> <<>>, reply |-> [status |-> "none"]]

\* The handler of SIGINT at each restart() among calls, for a handler
\* that runs them under the handler h: no handler calls signal.signal.
RestartsUnder(h, calls) ==
    [i \in 1..Cardinality({k \in DOMAIN calls : calls[k] = "restart"}) |-> h]

\* The state a handler call leaves, and the record of the call.
Apply(op, raw, silent, store_history, restart_flag, outcome, e) ==
    /\ hist_cache' = e.hist_cache
    /\ scilab_wrapper' = e.scilab_wrapper
    /\ disk' = e.disk
    /\ last' = [op |-> op, code |-> raw, silent |-> silent,
                store_history |-> store_history, restart |-> restart_flag,
                outcome |-> outcome, calls |-> e.calls, evald |-> e.evald,
                stream |-> e.stream, reply |-> e.reply]
    /\ restart_sigint' = RestartsUnder(sigint, e.calls)
    /\ UNCHANGED <<hist_file, execution_count, sigint>>

do_execute(raw, silent, store_history, outcome, exists_result) ==
    Apply("execute", raw, silent, store_history, FALSE, outcome,
          execute(raw, silent, store_history, outcome, exists_result))

do_history ==
    Apply("history", <<>>, FALSE, FALSE, FALSE, NoOutcome,
          history(hist_cache, scilab_wrapper, disk))

do_shutdown(restart_flag) ==
    Apply("shutdown", <<>>, FALSE, FALSE, restart_flag, NoOutcome,
          shutdown(restart_flag, hist_cache, scilab_wrapper, disk))

\* One execute request: a code cell, the two flags, and what the engine
\* answers where the handler asks it.  At most maxlen commands are kept
\* in the cache.
ExecuteRequest(codes, values, errors, maxlen) ==
    \E raw \in codes, silent \in BOOLEAN, store_history \in BOOLEAN :
        \E outcome \in (IF ReachesEval(raw)
                        THEN EvalOutcomes(scilab_wrapper, values, errors)
                        ELSE {NoOutcome}),
           exists_result \in (IF IsHelpQuery(strip(raw))
                              THEN BOOLEAN ELSE {FALSE}) :
            /\ (store_history /\ strip(raw) # <<>>) => Len(hist_cache) < maxlen
            /\ do_execute(raw, silent, store_history, outcome, exists_result)

HistoryRequest == do_history

ShutdownRequest == \E restart_flag \in BOOLEAN : do_shutdown(restart_flag)

\* The buffers of the completion requests: a token before a blank, a
\* semicolon alone, a token after a semicolon, a path.
b_trailing_space == <<"e", " ">>
b_semicolon == <<";">>
b_token == <<"x", ";", "e">>
b_path == <<"d", "/", "f">>

Buffers == {b_trailing_space, b_semicolon, b_token, b_path}

\* What os.listdir finds in the directory.
Listings == {<< <<"f", "1">>, <<"g">> >>}

\* What completion("...") returns: nothing, or the names between '!'.
CompletionValues ==
    {NoneValue,
     StrValue(<<"!", "e", "x", "p", " ", " ", " ", "!", "\n",
                "!", "e", "x", "i", "s", "t", "s", "!">>)}

do_complete(raw, cursor_pos, dir_exists, files, outcome) ==
    LET e == complete(raw, cursor_pos, dir_exists, files, outcome)
    IN /\ hist_cache' = e.hist_cache
       /\ scilab_wrapper' = e.scilab_wrapper
       /\ disk' = e.disk
       /\ last' = [op |-> "complete", code |-> raw, silent |-> FALSE,
                   store_history |-> FALSE, restart |-> FALSE,
                   outcome |-> outcome, calls |-> e.calls, evald |-> e.evald,
                   stream |-> e.stream, reply |-> e.reply,
                   cursor_pos |-> cursor_pos]
       /\ restart_sigint' = RestartsUnder(sigint, e.calls)
       /\ UNCHANGED <<hist_file, execution_count, sigint>>

\* One completion request: a buffer, a cursor in it, and what the file
\* system and the engine answer where the handler asks them.
CompleteRequest ==
    \E raw \in Buffers, dir_exists \in BOOLEAN, files \in Listings :
        \E cursor_pos \in 0..Len(raw) :
            \E outcome \in (IF CompleteReachesEval(raw, cursor_pos)
                            THEN EvalOutcomes(scilab_wrapper,
                                              CompletionValues, {e_other})
                            ELSE {NoOutcome}) :
                do_complete(raw, cursor_pos, dir_exists, files, outcome)

\* The session runs: every kind of code cell and of engine outcome, with
\* at most MaxSessionHist recorded commands.
MaxSessionHist == 1

Next ==
    \/ ExecuteRequest(Codes, Values, ErrorTexts, MaxSessionHist)
    \/ HistoryRequest
    \/ ShutdownRequest

Spec == Init /\ [][Next]_vars

\* The history runs: few distinct commands, recorded until the cache is
\* past its cap.
HistValues == {NumValue(2)}
HistErrors == {e_other}

NextHist ==
    \/ ExecuteRequest(HistCodes, HistValues, HistErrors, max_hist_cache + 1)
    \/ HistoryRequest
    \/ ShutdownRequest

SpecHist == Init /\ [][NextHist]_vars

\* The text runs: execute requests that differ in their text only.  The
\* codes are every short code over an alphabet of one word character,
\* the underscore, one operator and the blank, and the two cells of the
\* documentation, each evaluated to a result; the error texts are those
\* with the 'Scilab returned:' marker, each raised for one code.
MaxCodeLen == 3

TextAlphabet == {"_", "+", "x", " "}

c_assign == <<"a", " ", "=", " ", "_", " ", "+", " ", "1">>
c_x_y == <<"x", "_", "y">>

TextCodes ==
    UNION {[1..n -> TextAlphabet] : n \in 0..MaxCodeLen}
        \cup {c_assign, c_x_y}

e_returned_plain == scilab_returned_marker
                        \o <<" ", "F", "o", "o", " ", "b", "a", "r">>
e_returned_trailing == scilab_returned_marker
                           \o <<" ", "\t", "F", "o", "o", " ", "\n">>
e_returned_twice == <<"!", "-", "-">> \o scilab_returned_marker
                        \o <<" ", "a", "\n">> \o scilab_returned_marker
                        \o <<" ", "b">>

TextErrors ==
    {e_parse, e_returned, e_returned_plain, e_returned_trailing,
     e_returned_twice}

\* The result of the codes of the text runs.
TextResult == Returned(NumValue(2))

\* An execute request, not recorded, of a code that the running session
\* evaluates to a result.
SubstituteRequest ==
    \E raw \in TextCodes :
        do_execute(raw, FALSE, FALSE,
                   IF ReachesEval(raw) THEN TextResult ELSE NoOutcome, FALSE)

\* An execute request, not recorded, whose evaluation raises a
\* structured error.
ErrorRequest ==
    \E silent \in BOOLEAN, err \in TextErrors :
        do_execute(c_a, silent, FALSE, Scilab2PyError(err), FALSE)

NextText ==
    \/ SubstituteRequest
    \/ ErrorRequest

SpecText == Init /\ [][NextText]_vars

\* The completion runs: completion requests between execute and shutdown
\* requests that start, restart and close the session and set the
\* placeholder.
CompleteCodes == {c_empty, c_a, c_exit, c_restart, c_keyboard, c_help}

NextComplete ==
    \/ ExecuteRequest(CompleteCodes, Values, HistErrors, 0)
    \/ CompleteRequest
    \/ ShutdownRequest

SpecComplete == Init /\ [][NextComplete]_vars

\* ------------------------------------------------- the vocabulary of claims

\* How many times the last handler call made the call named name.
Count(name) == Cardinality({i \in DOMAIN last.calls : last.calls[i] = name})

\* do_shutdown has just run, called directly or by an exit/quit cell.
ShutdownRan == last.op = "shutdown" \/ Count("do_shutdown(False)") > 0

HistFileConfigured == hist_file # "None"

Min(a, b) == IF a < b THEN a ELSE b

\* The most recent min(n, cap) entries of a cache of n entries, oldest
\* first.
MostRecent(cache) ==
    LET n == Len(cache)
        k == Min(n, max_hist_cache)
    IN [i \in 1..k |-> cache[n - k + i]]

\* data is the entries of parts in order, one "\n" between neighbours.
RECURSIVE IsNewlineJoined(_, _)
IsNewlineJoined(data, parts) ==
    IF parts = <<>> THEN data = <<>>
    ELSE IF Len(parts) = 1 THEN data = parts[1]
    ELSE /\ startswith(data, Append(parts[1], "\n"))
         /\ IsNewlineJoined(From(data, Len(parts[1]) + 1), Tail(parts))

\* s is the beginning of t.
IsPrefix(s, t) == Len(s) <= Len(t) /\ SubSeq(t, 1, Len(s)) = s

\* ------------------------------------------------------------------- C1

\* C1: the history cache never holds more than max_hist_cache entries,
\* whatever execute, history and shutdown calls have run.
HistCacheWithinCap == Len(hist_cache) <= max_hist_cache

\* ------------------------------------------------------------------- C2

\* C2: with a history file configured, once shutdown has run the file
\* holds exactly the most recent min(n, cap) entries of the cache, in
\* order, joined by newlines; an entry older than that is left out.
ShutdownWritesMostRecent ==
    (ShutdownRan /\ HistFileConfigured) =>
        /\ disk.exists
        /\ IsNewlineJoined(disk.data, MostRecent(hist_cache))

\* The cache is one past the cap and shutdown has written the file
\* without the oldest entry.
ShutdownPastCapWitness ==
    /\ ShutdownRan /\ HistFileConfigured
    /\ Len(hist_cache) = max_hist_cache + 1
    /\ hist_cache[1] # hist_cache[2]
    /\ IsNewlineJoined(disk.data, Tail(hist_cache))

\* ------------------------------------------------------------------- C3

\* The texts of the triples history() answers from this file.
HistoryTexts(dsk) ==
    LET reply == history(hist_cache, scilab_wrapper, dsk).reply.history
    IN [i \in 1..Len(reply) |-> reply[i][3]]

\* C3: what shutdown has written, a following history() call reads back:
\* the texts of its triples are the most recent cap entries that were
\* written, in the same order and with the same text.
HistoryRoundTrip ==
    (ShutdownRan /\ HistFileConfigured) =>
        HistoryTexts(disk) = MostRecent(hist_cache)

\* ------------------------------------------------------------------- C4

\* C4: while the session is Closed (after an exit, before a restart) no
\* execute call invokes the engine's _eval.
NoEvalWhileClosed ==
    [][scilab_wrapper.session = "Closed" =>
          ~ (last'.op = "execute"
             /\ \E i \in DOMAIN last'.calls : last'.calls[i] = "_eval")]_vars

\* ------------------------------------------------------------------- C5

\* The exit/quit forms: the trimmed text is exit or quit, or starts with
\* exit( or quit(.
ExitForm(code) ==
    \/ code \in {kw_exit, kw_quit}
    \/ /\ Len(code) >= 5
       /\ SubSeq(code, 1, 4) \in {kw_exit, kw_quit}
       /\ code[5] = "("

\* C5: an execute call whose trimmed input is an exit/quit form calls
\* do_shutdown(False) exactly once (one close, no restart), never calls
\* _eval, and replies abort with the current execution counter.
ExitShutsDownOnce ==
    (last.op = "execute" /\ ExitForm(strip(last.code))) =>
        /\ Count("do_shutdown(False)") = 1
        /\ Count("close") = 1
        /\ Count("restart") = 0
        /\ Count("_eval") = 0
        /\ last.reply = [status |-> "abort",
                         execution_count |-> execution_count]

\* quit(1) has run: the call form of the second keyword.
ExitWitness ==
    /\ last.op = "execute" /\ last.code = c_quit_call
    /\ Count("do_shutdown(False)") = 1
    /\ scilab_wrapper.session = "Closed"

\* ------------------------------------------------------------------- C6

\* C6: when _eval raises an exception that is neither KeyboardInterrupt
\* nor Scilab2PyError, execute restarts the session exactly once, sends
\* the 'Uncaught Exception, Restarting Scilab' notice on the stdout
\* stream, replies ok, and the session is Running afterwards.
FaultRestartsAndNotifies ==
    (last.op = "execute" /\ last.outcome.kind = "Exception") =>
        /\ Count("restart") = 1
        /\ \E i \in DOMAIN last.stream :
               last.stream[i] = stream_content(UncaughtException)
        /\ last.reply.status = "ok"
        /\ scilab_wrapper.session = "Running"

\* ------------------------------------------------------------------- C7

\* C7: when KeyboardInterrupt ends the _eval call, execute sends exactly
\* one SIGINT to the engine process, makes no other engine call (no
\* close, no restart, no put), leaves the session and last_kernel_value
\* as they were, and replies abort.
InterruptForwardedOnce ==
    [][(last'.op = "execute" /\ last'.outcome.kind = "KeyboardInterrupt") =>
          /\ last'.calls = <<"_eval", "send_signal(SIGINT)">>
          /\ scilab_wrapper' = scilab_wrapper
          /\ last'.reply = [status |-> "abort",
                            execution_count |-> execution_count]]_vars

InterruptWitness ==
    /\ last.op = "execute" /\ last.outcome.kind = "KeyboardInterrupt"
    /\ Count("send_signal(SIGINT)") = 1
    /\ last.reply.status = "abort"
    /\ scilab_wrapper.last_kernel_value.defined

\* ------------------------------------------------------------------- C8

\* 'Scilab returned:' stands at position i of err.
MarkerAt(err, i) ==
    SubSeq(err, i, i + Len(scilab_returned_marker) - 1) = scilab_returned_marker

\* The categorized message of an error text: 'Parse Error' with the parse
\* marker, else the text after the first 'Scilab returned:' without its
\* leading whitespace, else 'Syntax Error' with that marker, else the
\* text itself.
IsCategorized(err, msg) ==
    IF Contains(err, parse_error_marker) THEN msg = ParseError
    ELSE IF Contains(err, scilab_returned_marker)
         THEN \E i \in 1..(Len(err) - Len(scilab_returned_marker) + 1) :
                 /\ MarkerAt(err, i)
                 /\ \A j \in 1..(i - 1) : ~ MarkerAt(err, j)
                 /\ msg = lstrip(SubSeq(err, i + Len(scilab_returned_marker),
                                        Len(err)))
    ELSE IF Contains(err, syntax_error_marker) THEN msg = syntax_error_marker
    ELSE msg = err

Restarted(calls) == \E i \in DOMAIN calls : calls[i] = "restart"

\* C9: a restart (the restart keyword, shutdown(restart=true) or fault
\* recovery) loses no entry of the history cache, and last_kernel_value
\* is still defined afterwards, with the value it had before.
RestartKeepsHistoryAndPlaceholder ==
    [][Restarted(last'.calls) =>
          /\ IsPrefix(hist_cache, hist_cache')
          /\ scilab_wrapper'.last_kernel_value.defined
          /\ scilab_wrapper'.last_kernel_value
                 = scilab_wrapper.last_kernel_value]_vars

\* ------------------------------------------------------------------ C10

\* C10: shutdown(restart=true) restarts the session and does not close
\* it, shutdown(restart=false) closes it and does not restart it; with
\* a history file configured either one writes the file from the current
\* cache; the reply is ok with the flag echoed.
ShutdownFollowsFlag ==
    last.op = "shutdown" =>
        /\ last.restart =>
               /\ Count("restart") = 1 /\ Count("close") = 0
               /\ scilab_wrapper.session = "Running"
        /\ ~ last.restart =>
               /\ Count("close") = 1 /\ Count("restart") = 0
               /\ scilab_wrapper.session = "Closed"
        /\ Count("write") = (IF HistFileConfigured THEN 1 ELSE 0)
        /\ HistFileConfigured =>
               /\ disk.exists
               /\ Len(hist_cache) <= max_hist_cache =>
                      IsNewlineJoined(disk.data, hist_cache)
        /\ last.reply = [status |-> "ok", restart |-> last.restart]

\* shutdown(restart=true) has run with a command in the cache and has
\* written it to the file.
ShutdownRestartWitness ==
    /\ last.op = "shutdown" /\ last.restart
    /\ HistFileConfigured /\ hist_cache = <<c_a>>
    /\ disk.data = c_a
    /\ scilab_wrapper.session = "Running"

\* ------------------------------------------------------------------ C11

\* The text an execute call is to stream: the text of the value _eval
\* returned, or the message of the structured error.
ResultOrErrorText ==
    IF last.outcome.kind = "value"
    THEN (IF last.outcome.value = NoneValue THEN <<>>
          ELSE str(last.outcome.value))
    ELSE strip(last.reply.evalue)

\* C11: an execute call with silent set sends nothing on the stdout
\* stream, whatever its outcome (a result, a structured error, a fault, a
\* help query); without silent, the text of the result or of the error
\* is on the stream when the reply is returned.
SilentStreamsNothing ==
    last.op = "execute" =>
        /\ last.silent => last.stream = <<>>
        /\ (~ last.silent
            /\ last.outcome.kind \in {"value", "Scilab2PyError"}) =>
               last.stream = <<stream_content(ResultOrErrorText)>>

\* ------------------------------------------------------------------ C12

\* The text holds nothing but whitespace (the empty text included).
OnlyWhitespace(s) == \A i \in 1..Len(s) : s[i] \in Whitespace

\* C12: an execute call whose code is empty or only whitespace, with
\* either value of store_history, replies ok with the unmodified
\* execution counter, leaves the history cache, the session and the
\* placeholder as they were, calls the engine not at all and streams
\* nothing.
BlankExecuteIsNoOp ==
    [][(last'.op = "execute" /\ OnlyWhitespace(last'.code)) =>
          /\ last'.reply = [status |-> "ok",
                            execution_count |-> execution_count,
                            payload |-> <<>>, user_expressions |-> <<>>]
          /\ last'.calls = <<>>
          /\ last'.stream = <<>>
          /\ hist_cache' = hist_cache
          /\ scilab_wrapper' = scilab_wrapper
          /\ disk' = disk
          /\ execution_count' = execution_count]_vars

\* A recorded-history execute of a whitespace-only cell, with commands
\* in the cache and a placeholder in the session.
BlankExecuteWitness ==
    /\ last.op = "execute" /\ last.code = c_blank /\ last.store_history
    /\ last.reply.status = "ok"
    /\ hist_cache # <<>>
    /\ scilab_wrapper.last_kernel_value # Undefined

\* ------------------------------------------------------------------ C13

\* do_execute has handed a text to _eval in the last call.
Evaluated ==
    last.op = "execute" /\ last.calls # <<>> /\ last.calls[1] = "_eval"

\* The positions of s that hold a bare underscore: one with no word
\* character right before it and none right after it.
BarePositions(s) ==
    {i \in 1..Len(s) :
        /\ s[i] = "_"
        /\ (i = 1 \/ s[i - 1] \notin WordChars)
        /\ (i = Len(s) \/ s[i + 1] \notin WordChars)}

\* s from position i on, with the placeholder's name in the place of the
\* characters at the positions of P and every other character kept.
RECURSIVE ReplacedAt(_, _, _)
ReplacedAt(s, P, i) ==
    IF i > Len(s) THEN <<>>
    ELSE (IF i \in P THEN last_kernel_value_name ELSE <<s[i]>>)
             \o ReplacedAt(s, P, i + 1)

\* C13: in the text handed to the engine every bare underscore of the
\* trimmed code is replaced by last_kernel_value, also where two of
\* them are one character apart, as in "_+_" and "_ _".
EveryBareUnderscoreReplaced ==
    Evaluated =>
        LET code == strip(last.code)
        IN last.evald = ReplacedAt(code, BarePositions(code), 1)

\* ------------------------------------------------------------------ C14

\* C14: the substitution rewrites bare underscores only: an underscore
\* inside a longer identifier, as in "x_y", stays, and no other
\* character of the code changes; "a = _ + 1" is evaluated as
\* "a = last_kernel_value + 1".
OnlyBareUnderscoresRewritten ==
    Evaluated =>
        LET code == strip(last.code)
        IN /\ \E P \in SUBSET BarePositions(code) :
                  last.evald = ReplacedAt(code, P, 1)
           /\ code = c_x_y => last.evald = c_x_y
           /\ code = c_assign =>
                  last.evald = <<"a", " ", "=", " ">> \o last_kernel_value_name
                                   \o <<" ", "+", " ", "1">>

\* "a = _ + 1" has been evaluated with the placeholder's name in it.
AssignFromUnderscoreWitness ==
    /\ Evaluated
    /\ last.code = c_assign
    /\ Contains(last.evald, last_kernel_value_name)
    /\ last.outcome.kind = "value"

\* ------------------------------------------------------------------ C15

\* C15: a completion request with a blank right before the cursor is
\* answered with status ok, no matches, and cursor_start and cursor_end
\* both at the cursor position of the request, and the engine is not
\* called.
BlankBeforeCursorCompletesNothing ==
    (/\ last.op = "complete"
     /\ last.cursor_pos \in 1..Len(last.code)
     /\ last.code[last.cursor_pos] = " ") =>
        /\ last.reply.status = "ok"
        /\ last.reply.matches = <<>>
        /\ last.reply.cursor_start = last.cursor_pos
        /\ last.reply.cursor_end = last.cursor_pos
        /\ Count("_eval") = 0

\* ------------------------------------------------------------------ C17

\* The last call was an execute whose evaluation completed normally with
\* a result that is not None.
NormalResult(l) ==
    /\ l.op = "execute"
    /\ l.outcome.kind = "value" /\ l.outcome.value # NoneValue
    /\ l.reply.status = "ok"

\* C17: the placeholder mirrors the most recent non-null result of a
\* normally completed evaluation: an execute call that completes
\* normally with a result other than None sets it to that result,
\* silent or not; any other execute call (a None result, a structured
\* error, a fault, an interrupted call replying abort, an empty,
\* keyboard, exit/quit, restart or help cell) and any completion
\* request leave it as it was.
PlaceholderMirrorsLastResult ==
    [][last'.op \in {"execute", "complete"} =>
          IF NormalResult(last')
          THEN scilab_wrapper'.last_kernel_value
                   = Defined(last'.outcome.value)
          ELSE scilab_wrapper'.last_kernel_value
                   = scilab_wrapper.last_kernel_value]_vars

\* ------------------------------------------------------------------ C16

\* x is t without its leading whitespace.
IsLeadingTrim(t, x) ==
    /\ Len(x) <= Len(t)
    /\ x = SubSeq(t, Len(t) - Len(x) + 1, Len(t))
    /\ \A k \in 1..(Len(t) - Len(x)) : t[k] \in Whitespace
    /\ x # <<>> => x[1] \notin Whitespace

\* x is t without its trailing whitespace.
IsTrailingTrim(t, x) ==
    /\ Len(x) <= Len(t)
    /\ x = SubSeq(t, 1, Len(x))
    /\ \A k \in (Len(x) + 1)..Len(t) : t[k] \in Whitespace
    /\ x # <<>> => x[Len(x)] \notin Whitespace

\* The last call was an execute whose evaluation raised a structured
\* error with the 'Scilab returned:' marker in its text.
ReturnedMarkerError ==
    /\ last.op = "execute" /\ last.outcome.kind = "Scilab2PyError"
    /\ \E i \in 1..(Len(last.outcome.msg) - Len(scilab_returned_marker) + 1) :
           MarkerAt(last.outcome.msg, i)

\* The text that follows the first 'Scilab returned:' of err.
AfterFirstMarker(err) ==
    LET i == CHOOSE i \in 1..(Len(err) - Len(scilab_returned_marker) + 1) :
                 /\ MarkerAt(err, i)
                 /\ \A j \in 1..(i - 1) : ~ MarkerAt(err, j)
    IN SubSeq(err, i + Len(scilab_returned_marker), Len(err))

SigintDefaultDuringRestart ==
    /\ \A i \in DOMAIN restart_sigint : restart_sigint[i] = SIG_DFL
    /\ sigint = PreviousHandler

\* ------------------------------------------------------------------ C19

\* The entries of lines one after the other.
RECURSIVE Flatten(_)
Flatten(lines) ==
    IF lines = <<>> THEN <<>> ELSE Head(lines) \o Flatten(Tail(lines))

\* l is a line of the file data: not empty, with no "\n" but possibly at
\* its end.
IsLine(l) ==
    /\ l # <<>>
    /\ \A k \in 1..(Len(l) - 1) : l[k] # "\n"

\* lines is the lines of data in file order, cut to the first
\* max_hist_cache of them.
IsCappedLines(data, lines) ==
    /\ \A i \in DOMAIN lines : IsLine(lines[i])
    /\ \A i \in 1..(Len(lines) - 1) : lines[i][Len(lines[i])] = "\n"
    /\ IsPrefix(Flatten(lines), data)
    /\ Len(lines) <= max_hist_cache
    /\ Flatten(lines) # data =>
           /\ Len(lines) = max_hist_cache
           /\ lines[Len(lines)][Len(lines[Len(lines)])] = "\n"

\* C19: after a history call with a history file configured the cache
\* is exactly the lines of the file, cut to the cap, and the reply holds
\* the same lines as (None, None, text) triples in file order; with no
\* file configured the reply is the empty list and the cache is left as
\* it was.  So the cache after history holds nothing that execute
\* recorded since the file was written, and the file the next shutdown
\* writes is made of the lines history read and of nothing else.
HistoryReplacesCache ==
    [][/\ (last'.op = "history" /\ hist_file # "None") =>
              /\ disk'.exists
              /\ disk'.data = (IF disk.exists THEN disk.data ELSE <<>>)
              /\ IsCappedLines(disk'.data, hist_cache')
              /\ last'.reply =
                     [history |-> [i \in 1..Len(hist_cache') |->
                                      <<"None", "None", hist_cache'[i]>>]]
       /\ (last'.op = "history" /\ hist_file = "None") =>
              /\ last'.reply = [history |-> <<>>]
              /\ hist_cache' = hist_cache
              /\ disk' = disk
       /\ (last.op = "history" /\ last'.op = "shutdown"
           /\ hist_file # "None") =>
              /\ IsCappedLines(disk.data, hist_cache)
              /\ IsNewlineJoined(disk'.data, hist_cache)]_vars

\* history has read a file of more lines than the cap: the cache holds
\* the first max_hist_cache of them.
HistoryPastCapWitness ==
    /\ last.op = "history" /\ hist_file # "None"
    /\ Len(hist_cache) = max_hist_cache
    /\ Flatten(hist_cache) # disk.data

\* ------------------------------------------------------------------ C20

\* x is t without its leading and trailing whitespace.
IsTrim(t, x) ==
    \E k \in 0..(Len(t) - Len(x)) :
        /\ x = SubSeq(t, k + 1, k + Len(x))
        /\ \A i \in 1..k : t[i] \in Whitespace
        /\ \A i \in (k + Len(x) + 1)..Len(t) : t[i] \in Whitespace
        /\ x # <<>> => (x[1] \notin Whitespace /\ x[Len(x)] \notin Whitespace)

\* line is the last line of the file data.
IsLastLine(data, line) ==
    /\ endswith(data, line)
    /\ Len(data) > Len(line) => data[Len(data) - Len(line)] = "\n"

====
